---------------------------- MODULE Spec2Model ----------------------------
(***************************************************************************)
(* Model of the matching/scoring engine of Placement-Navigator            *)
(* (src/backend/services/matching_service.py, class MatchingService).     *)
(*                                                                         *)
(* Scores are the code's floats in [0,1] held as exact integers in units  *)
(* of 1/One; strings are sequences of one-character strings so that       *)
(* lower(), strip() and the substring test `in` are computed, not assumed. *)
(***************************************************************************)
EXTENDS Integers, Sequences, FiniteSets, TLC

(***************************************************************************)
(* Units and small helpers                                                 *)
(***************************************************************************)
\* The float 1.0 in score units (divisible by 10, 100, 24 and by 1..6).
One == 100 * 120

\* The decimal literal n/d of the code in score units (0.4 == Dec(4, 10)).
Dec(n, d) == (n * One) \div d

Min(a, b) == IF a <= b THEN a ELSE b

Max(a, b) == IF a >= b THEN a ELSE b

RECURSIVE SumSeq(_)
SumSeq(s) == IF s = <<>> THEN 0 ELSE Head(s) + SumSeq(Tail(s))

\* set(xs) of the code: the set of a list's elements.
SetOf(s) == {s[i] : i \in 1..Len(s)}

\* matches[:limit] for limit >= 0.
Take(s, n) == SubSeq(s, 1, Min(n, Len(s)))

(***************************************************************************)
(* Strings: str.lower(), str.strip(), `a in b`                             *)
(***************************************************************************)
LowerChar(c) ==
    CASE c = "A" -> "a"
      [] c = "B" -> "b"
      [] c = "C" -> "c"
      [] c = "J" -> "j"
      [] c = "L" -> "l"
      [] c = "P" -> "p"
      [] c = "Q" -> "q"
      [] c = "S" -> "s"
      [] OTHER -> c

RECURSIVE Lower(_)
Lower(s) == IF s = <<>> THEN <<>> ELSE <<LowerChar(Head(s))>> \o Lower(Tail(s))

RECURSIVE LStrip(_)
LStrip(s) == IF s # <<>> /\ Head(s) = " " THEN LStrip(Tail(s)) ELSE s

RECURSIVE RStrip(_)
RStrip(s) ==
    IF s # <<>> /\ s[Len(s)] = " " THEN RStrip(SubSeq(s, 1, Len(s) - 1)) ELSE s

Strip(s) == RStrip(LStrip(s))

\* Python's `sub in s` on strings (the empty string is in every string).
Contains(sub, s) ==
    \E i \in 0..(Len(s) - Len(sub)) : SubSeq(s, i + 1, i + Len(sub)) = sub

(***************************************************************************)
(* Rule Scorer                                                             *)
(***************************************************************************)
\* profile = student.profile_data or {}: the attribute bag, a missing key
\* read as the empty list or the empty string.
ProfileOf(student) == student.profile_data

RECURSIVE MapLower(_)
MapLower(xs) ==
    IF xs = <<>> THEN <<>> ELSE <<Lower(Head(xs))>> \o MapLower(Tail(xs))

RECURSIVE MapLowerStrip(_)
MapLowerStrip(xs) ==
    IF xs = <<>> THEN <<>>
    ELSE <<Strip(Lower(Head(xs)))>> \o MapLowerStrip(Tail(xs))

\* One education entry of the boost score: 0.3 when some requirement passes
\* `field in req or req in field or degree in req`, else 0.
BoostEduEntry(edu, reqs) ==
    IF \E i \in 1..Len(reqs) :
          \/ Contains(Lower(edu.field), reqs[i])
          \/ Contains(reqs[i], Lower(edu.field))
          \/ Contains(Lower(edu.degree), reqs[i])
    THEN Dec(3, 10) ELSE 0

\* The `for edu in education` loop of the boost score: its inner `break`
\* leaves only the requirement loop, so every education entry is tested.
RECURSIVE BoostEducation(_, _)
BoostEducation(education, reqs) ==
    IF education = <<>> THEN 0
    ELSE BoostEduEntry(Head(education), reqs) + BoostEducation(Tail(education), reqs)

RECURSIVE TotalMonths(_)
TotalMonths(experience) ==
    IF experience = <<>> THEN 0
    ELSE Head(experience).duration_months + TotalMonths(Tail(experience))

\* skill_score of the boost score (lines 477-478): the share of the
\* requirements that equal some student skill, both lists lowercased.
SkillScore(student_skills, job_requirements) ==
    Dec(Cardinality(SetOf(student_skills) \cap SetOf(job_requirements)),
        Len(job_requirements))

\* The boost score before the final min(1.0, score).
RuleScoreRaw(student, job) ==
    LET profile == ProfileOf(student)
        student_skills == MapLower(profile.skills)
        job_requirements == MapLower(job.requirements)
        skill_part ==
            IF student_skills # <<>> /\ job_requirements # <<>>
            THEN (SkillScore(student_skills, job_requirements) * 4) \div 10
            ELSE 0
        edu_part ==
            IF profile.education # <<>> /\ job.requirements # <<>>
            THEN BoostEducation(profile.education, job_requirements)
            ELSE 0
        total_months == TotalMonths(profile.experience)
        exp_part ==
            IF profile.experience # <<>> /\ total_months > 0
            THEN Min(Dec(3, 10), (total_months * Dec(3, 10)) \div 24)
            ELSE 0
    IN  skill_part + edu_part + exp_part

\* Faulty variant: the final min(1.0, score) is lost.
RuleScoreUnclamped(student, job) == RuleScoreRaw(student, job)

\* _calculate_rule_score
CalculateRuleScore(student, job) == Min(One, RuleScoreRaw(student, job))

\* partial_matches of the detailed score: the student skills that have some
\* requirement with `student_skill in job_req or job_req in student_skill`.
PartialMatchCount(student_skills, reqs) ==
    Cardinality({i \in 1..Len(student_skills) :
        \E j \in 1..Len(reqs) :
            \/ Contains(student_skills[i], reqs[j])
            \/ Contains(reqs[j], student_skills[i])})

DetailedSkills(profile, reqs) ==
    LET student_skills == MapLowerStrip(profile.skills)
    IN  IF student_skills # <<>> /\ reqs # <<>>
        THEN (Cardinality(SetOf(student_skills) \cap SetOf(reqs)) * Dec(4, 10))
                  \div Len(reqs)
             + (PartialMatchCount(student_skills, reqs) * Dec(1, 10)) \div Len(reqs)
        ELSE 0

Master == <<"m", "a", "s", "t", "e", "r">>

Phd == <<"p", "h", "d">>

\* Faulty variant: the loop over the education entries has lost its final
\* break, so every entry is scored.
RECURSIVE EducationScoreAll(_, _)
EducationScoreAll(education, reqs) ==
    IF education = <<>> THEN 0
    ELSE LET edu == Head(education)
             field == Lower(edu.field)
             degree == Lower(edu.degree)
         IN  (IF \E i \in 1..Len(reqs) :
                    field # <<>> /\ (Contains(field, reqs[i]) \/ Contains(reqs[i], field))
              THEN Dec(15, 100) ELSE 0)
             + (IF edu.gpa >= 35 THEN Dec(5, 100)
                ELSE IF edu.gpa >= 30 THEN Dec(3, 100) ELSE 0)
             + (IF Contains(Master, degree) \/ Contains(Phd, degree)
                THEN Dec(2, 100) ELSE 0)
             + EducationScoreAll(Tail(education), reqs)

DetailedEducationAllEntries(profile, reqs) ==
    Min(Dec(25, 100), EducationScoreAll(profile.education, reqs))

\* Only education[0] is scored: the loop ends with an unconditional break.
DetailedEducation(profile, reqs) ==
    IF profile.education = <<>> THEN 0
    ELSE LET edu == Head(profile.education)
             field == Lower(edu.field)
             degree == Lower(edu.degree)
             field_part ==
                 IF \E i \in 1..Len(reqs) :
                       field # <<>> /\ (Contains(field, reqs[i]) \/ Contains(reqs[i], field))
                 THEN Dec(15, 100) ELSE 0
             gpa_part ==
                 IF edu.gpa >= 35 THEN Dec(5, 100)
                 ELSE IF edu.gpa >= 30 THEN Dec(3, 100) ELSE 0
             degree_part ==
                 IF Contains(Master, degree) \/ Contains(Phd, degree)
                 THEN Dec(2, 100) ELSE 0
         IN  Min(Dec(25, 100), field_part + gpa_part + degree_part)

\* Faulty variant: the 0.20 ceiling of the experience component is lost.
DetailedExperienceUncapped(profile, reqs) ==
    IF profile.experience = <<>> THEN 0
    ELSE LET total_months == TotalMonths(profile.experience)
             duration_part ==
                 IF total_months >= 24 THEN Dec(15, 100)
                 ELSE IF total_months >= 12 THEN Dec(10, 100)
                 ELSE IF total_months >= 6 THEN Dec(5, 100) ELSE 0
             relevant ==
                 {i \in 1..Len(profile.experience) :
                     \E j \in 1..Len(reqs) :
                         Contains(reqs[j], Lower(profile.experience[i].description))}
         IN  duration_part + Cardinality(relevant) * Dec(5, 100)

DetailedExperience(profile, reqs) ==
    IF profile.experience = <<>> THEN 0
    ELSE LET total_months == TotalMonths(profile.experience)
             duration_part ==
                 IF total_months >= 24 THEN Dec(15, 100)
                 ELSE IF total_months >= 12 THEN Dec(10, 100)
                 ELSE IF total_months >= 6 THEN Dec(5, 100) ELSE 0
             relevant ==
                 {i \in 1..Len(profile.experience) :
                     \E j \in 1..Len(reqs) :
                         Contains(reqs[j], Lower(profile.experience[i].description))}
         IN  Min(Dec(20, 100), duration_part + Cardinality(relevant) * Dec(5, 100))

DetailedCompleteness(profile) ==
    (IF profile.bio # <<>> THEN Dec(1, 100) ELSE 0)
    + (IF profile.skills # <<>> THEN Dec(1, 100) ELSE 0)
    + (IF profile.education # <<>> THEN Dec(1, 100) ELSE 0)
    + (IF profile.experience # <<>> THEN Dec(1, 100) ELSE 0)
    + (IF profile.interests # <<>> THEN Dec(1, 100) ELSE 0)

\* The detailed score before the final min(1.0, total_score).
DetailedScoreRaw(student, job) ==
    LET profile == ProfileOf(student)
        job_requirements == MapLowerStrip(job.requirements)
    IN  DetailedSkills(profile, job_requirements)
        + DetailedEducation(profile, job_requirements)
        + DetailedExperience(profile, job_requirements)
        + DetailedCompleteness(profile)

\* Faulty variant: the final min(1.0, total_score) is lost.
DetailedScoreUnclamped(student, job) == DetailedScoreRaw(student, job)

\* _calculate_detailed_rule_score
CalculateDetailedRuleScore(student, job) == Min(One, DetailedScoreRaw(student, job))

(***************************************************************************)
(* Skill Matcher                                                           *)
(***************************************************************************)
\* Faulty variant: a skill is a partial match only when it is contained in a
\* requirement, not when it contains one.
RECURSIVE PartialMatchesOneWay(_, _, _, _)
PartialMatchesOneWay(sl, rl, exact, n) ==
    IF n = 0 THEN {}
    ELSE LET before == PartialMatchesOneWay(sl, rl, exact, n - 1)
             student_skill == sl[n]
         IN  IF \E j \in 1..Len(rl) :
                   /\ Contains(student_skill, rl[j])
                   /\ student_skill \notin exact
                   /\ rl[j] \notin before
             THEN before \cup {student_skill}
             ELSE before

\* The partial_matches list after the loop over the first n student skills.
RECURSIVE PartialMatches(_, _, _, _)
PartialMatches(sl, rl, exact, n) ==
    IF n = 0 THEN {}
    ELSE LET before == PartialMatches(sl, rl, exact, n - 1)
             student_skill == sl[n]
         IN  IF \E j \in 1..Len(rl) :
                   /\ Contains(student_skill, rl[j]) \/ Contains(rl[j], student_skill)
                   /\ student_skill \notin exact
                   /\ rl[j] \notin before
             THEN before \cup {student_skill}
             ELSE before

\* Faulty variant: the normalised strings are returned in place of the
\* candidate's own.
ExtractMatchedSkillsLowered(student_skills, job_requirements) ==
    IF student_skills = <<>> \/ job_requirements = <<>> THEN <<>>
    ELSE LET sl == MapLowerStrip(student_skills)
             rl == MapLowerStrip(job_requirements)
             exact == SetOf(sl) \cap SetOf(rl)
             all_matches == exact \cup PartialMatches(sl, rl, exact, Len(sl))
         IN  SelectSeq(sl, LAMBDA skill : skill \in all_matches)

\* _extract_matched_skills
ExtractMatchedSkills(student_skills, job_requirements) ==
    IF student_skills = <<>> \/ job_requirements = <<>> THEN <<>>
    ELSE LET sl == MapLowerStrip(student_skills)
             rl == MapLowerStrip(job_requirements)
             exact == SetOf(sl) \cap SetOf(rl)
             all_matches == exact \cup PartialMatches(sl, rl, exact, Len(sl))
         IN  SelectSeq(student_skills, LAMBDA skill : Strip(Lower(skill)) \in all_matches)

(***************************************************************************)
(* Similarity Engine                                                       *)
(***************************************************************************)
Dot(v1, v2) == SumSeq([i \in 1..Len(v1) |-> v1[i] * v2[i]])

\* numpy.linalg.norm; the vectors of the model have integral norms.
Norm(v) ==
    LET sq == Dot(v, v)
    IN  CHOOSE r \in 0..sq : r * r <= sq /\ (r + 1) * (r + 1) > sq

\* Faulty variant: the result is not clamped to [0,1].
CosineSimilarityUnclamped(vec1, vec2) ==
    IF Len(vec1) # Len(vec2) THEN 0
    ELSE IF Norm(vec1) = 0 \/ Norm(vec2) = 0 THEN 0
    ELSE (Dot(vec1, vec2) * One) \div (Norm(vec1) * Norm(vec2))

\* _cosine_similarity: numpy.dot raises on vectors of different lengths and
\* the except clause turns that into 0.0.
CosineSimilarity(vec1, vec2) ==
    IF Len(vec1) # Len(vec2) THEN 0
    ELSE IF Norm(vec1) = 0 \/ Norm(vec2) = 0 THEN 0
    ELSE Max(0, Min(One, (Dot(vec1, vec2) * One) \div (Norm(vec1) * Norm(vec2))))

\* final_score = min(1.0, similarity + rule_boost * 0.2), before the min.
FinalScoreRaw(similarity, rule_boost) == similarity + (rule_boost * 2) \div 10

FinalScore(similarity, rule_boost) == Min(One, FinalScoreRaw(similarity, rule_boost))

\* "{x:.3f}": a score in thousandths, rounded.
Fmt3(x) == (x * 1000 + One \div 2) \div One

(***************************************************************************)
(* Embedding Cache                                                         *)
(***************************************************************************)
\* self.cache_ttl, in seconds.
cache_ttl == 3600

\* The provider's answer to one call: a vector, or a failure (any exception
\* of the client).
ProviderFail == <<>>

\* The vectors the provider answers with in the model.
Vectors == {<<1, 0>>, <<0, 1>>}

ProviderOutcomes == Vectors \cup {ProviderFail}

\* Faulty variant: a lookup sweeps every expired entry out of the cache.
CacheLookupSweep(c, t, cache_key) ==
    LET fresh == {k \in DOMAIN c : t - c[k].timestamp < cache_ttl}
        swept == [k \in fresh |-> c[k]]
    IN  IF cache_key \in fresh
        THEN [hit |-> TRUE, embedding |-> c[cache_key].embedding, cache |-> swept]
        ELSE [hit |-> FALSE, embedding |-> <<>>, cache |-> swept]

\* Faulty variant: an entry is still valid at the age of cache_ttl.
CacheLookupInclusive(c, t, cache_key) ==
    IF cache_key \in DOMAIN c /\ t - c[cache_key].timestamp <= cache_ttl
    THEN [hit |-> TRUE, embedding |-> c[cache_key].embedding, cache |-> c]
    ELSE [hit |-> FALSE, embedding |-> <<>>,
          cache |-> [k \in DOMAIN c \ {cache_key} |-> c[k]]]

\* Lines 312-319: the cache check. hit: the cached vector is returned;
\* otherwise an expired entry of this key is deleted.
CacheLookup(c, t, cache_key) ==
    IF cache_key \in DOMAIN c
    THEN IF t - c[cache_key].timestamp < cache_ttl
         THEN [hit |-> TRUE, embedding |-> c[cache_key].embedding, cache |-> c]
         ELSE [hit |-> FALSE, embedding |-> <<>>,
               cache |-> [k \in DOMAIN c \ {cache_key} |-> c[k]]]
    ELSE [hit |-> FALSE, embedding |-> <<>>, cache |-> c]

\* Faulty variant: a write does not replace an entry that is there.
CacheFillKeepFirst(c, t, cache_key, outcome) ==
    IF outcome = ProviderFail
    THEN [ok |-> FALSE, embedding |-> <<>>, cache |-> c]
    ELSE [ok |-> TRUE, embedding |-> outcome,
          cache |-> [k \in DOMAIN c \cup {cache_key} |->
                        IF k \in DOMAIN c THEN c[k]
                        ELSE [embedding |-> outcome, timestamp |-> t]]]

\* Lines 321-350: the provider's answer is cached under the key with the
\* current time and returned; a failure returns None and caches nothing.
CacheFill(c, t, cache_key, outcome) ==
    IF outcome = ProviderFail
    THEN [ok |-> FALSE, embedding |-> <<>>, cache |-> c]
    ELSE [ok |-> TRUE, embedding |-> outcome,
          cache |-> [k \in DOMAIN c \cup {cache_key} |->
                        IF k = cache_key
                        THEN [embedding |-> outcome, timestamp |-> t]
                        ELSE c[k]]]

\* Faulty variant: a provider failure is not reported as None.
GetEmbeddingNeverNone(c, t, cache_key, outcome) ==
    LET chk == CacheLookup(c, t, cache_key)
    IN  IF chk.hit
        THEN [ok |-> TRUE, embedding |-> chk.embedding, cache |-> c, called |-> FALSE]
        ELSE LET fill == CacheFill(chk.cache, t, cache_key, outcome)
             IN  [ok |-> TRUE, embedding |-> fill.embedding,
                  cache |-> fill.cache, called |-> TRUE]

\* Faulty variant: a cached vector is used only when it is the provider's
\* answer to the text of the call.
GetEmbeddingTextAware(c, t, cache_key, outcome) ==
    LET chk == CacheLookup(c, t, cache_key)
    IN  IF chk.hit /\ chk.embedding = outcome
        THEN [ok |-> TRUE, embedding |-> chk.embedding, cache |-> c, called |-> FALSE]
        ELSE LET fill == CacheFill(chk.cache, t, cache_key, outcome)
             IN  [ok |-> fill.ok, embedding |-> fill.embedding,
                  cache |-> fill.cache, called |-> TRUE]

\* _get_embedding run without interruption. ok = FALSE is the None result;
\* called tells whether the provider was called.
GetEmbedding(c, t, cache_key, outcome) ==
    LET chk == CacheLookup(c, t, cache_key)
    IN  IF chk.hit
        THEN [ok |-> TRUE, embedding |-> chk.embedding, cache |-> c, called |-> FALSE]
        ELSE LET fill == CacheFill(chk.cache, t, cache_key, outcome)
             IN  [ok |-> fill.ok, embedding |-> fill.embedding,
                  cache |-> fill.cache, called |-> TRUE]

JobKey(id) == <<"job", id>>

StudentKey(id) == <<"student", id>>

(***************************************************************************)
(* Match store (table ai_matches)                                          *)
(***************************************************************************)
\* The rows of a (student_id, job_id) pair, by position in the table.
RowsOf(st, student_id, job_id) ==
    {i \in 1..Len(st) : st[i].student_id = student_id /\ st[i].job_id = job_id}

FirstRow(st, student_id, job_id) ==
    CHOOSE i \in RowsOf(st, student_id, job_id) :
        \A j \in RowsOf(st, student_id, job_id) : i <= j

\* Faulty variant: the lookup never finds a row.
ExistingMatchNever(st, student_id, job_id) == 0

\* Lines 684-687: query(AIMatch).filter(student_id, job_id).first(): the
\* position of the row found, 0 for None.
ExistingMatch(st, student_id, job_id) ==
    IF RowsOf(st, student_id, job_id) # {}
    THEN FirstRow(st, student_id, job_id)
    ELSE 0

\* Lines 689-709: the row found is updated, or a new row is added, and the
\* session commits.
\* Faulty variant: storing a match first clears the job's other records.
WriteMatchFresh(st, existing_match, student_id, job_id, score, matched_skills, explanation) ==
    Append(SelectSeq(st, LAMBDA r : r.job_id # job_id \/ r.student_id = student_id),
           [student_id |-> student_id, job_id |-> job_id,
            match_score |-> score, matched_skills |-> matched_skills,
            explanation |-> explanation])

WriteMatch(st, existing_match, student_id, job_id, score, matched_skills, explanation) ==
    IF existing_match # 0
    THEN [st EXCEPT ![existing_match] =
             [@ EXCEPT !.match_score = score,
                       !.matched_skills = matched_skills,
                       !.explanation = explanation]]
    ELSE Append(st, [student_id |-> student_id, job_id |-> job_id,
                     match_score |-> score, matched_skills |-> matched_skills,
                     explanation |-> explanation])

\* _store_match run without interruption, when lookup, add/update and commit
\* all succeed.
StoreMatch(st, student_id, job_id, score, matched_skills, explanation) ==
    WriteMatch(st, ExistingMatch(st, student_id, job_id), student_id, job_id,
               score, matched_skills, explanation)

(***************************************************************************)
(* Ordering: matches.sort(key=lambda x: x.score, reverse=True)             *)
(***************************************************************************)
\* Faulty variant: an unstable sort, equal scores come out in reverse order.
InsertDescUnstable(sorted, x) ==
    LET k == Cardinality({i \in 1..Len(sorted) : sorted[i].score > x.score})
    IN  SubSeq(sorted, 1, k) \o <<x>> \o SubSeq(sorted, k + 1, Len(sorted))

\* list.sort is stable, also with reverse=True: an element goes behind every
\* element already placed whose score is greater or equal.
InsertDesc(sorted, x) ==
    LET k == Cardinality({i \in 1..Len(sorted) : sorted[i].score >= x.score})
    IN  SubSeq(sorted, 1, k) \o <<x>> \o SubSeq(sorted, k + 1, Len(sorted))

RECURSIVE SortDesc(_)
SortDesc(ms) ==
    IF ms = <<>> THEN <<>>
    ELSE InsertDesc(SortDesc(SubSeq(ms, 1, Len(ms) - 1)), ms[Len(ms)])

\* matches.sort(...); matches = matches[:limit]
SortAndLimit(ms, lim) == Take(SortDesc(ms), lim)

(***************************************************************************)
(* Bounds and the data the model runs on                                   *)
(***************************************************************************)
\* Longest user table.
MaxStudents == 2

\* Largest limit argument.
MaxLimit == 2

\* Table jobs: job 1 asks for "A" and "bc", job 2 for "a".
Jobs ==
    (1 :> [id |-> 1, requirements |-> << <<"A">>, <<"b", "c">> >>])
    @@ (2 :> [id |-> 2, requirements |-> << <<"a">> >>])

\* The job ids a caller may pass: those of the table and one that is absent.
RequestJobIds == DOMAIN Jobs \cup {3}

MinScores == {0, Dec(3, 10), Dec(6, 10)}

\* limit: none, one, and as many as the longest table holds.
Limits == {0, 1, MaxLimit}

\* Attribute bags. skills_valid = FALSE: the skills list holds an entry that
\* is not a string (any JSON value passes the schema), so that " ".join(...)
\* and skill.lower() raise.
StrongProfile ==
    [skills |-> << <<"a">>, <<"B", "C">>, <<"a", "b">> >>, skills_valid |-> TRUE,
     education |-> << [field |-> <<"a">>, degree |-> Master, gpa |-> 38],
                      [field |-> <<"b", "c">>, degree |-> <<"b">>, gpa |-> 20] >>,
     experience |-> << [description |-> <<"a", "b">>, duration_months |-> 30] >>,
     bio |-> <<"b">>, interests |-> << <<"c">> >>]

MidProfile ==
    [skills |-> << <<" ", "a">> >>, skills_valid |-> TRUE,
     education |-> << [field |-> <<>>, degree |-> <<"b">>, gpa |-> 32] >>,
     experience |-> << [description |-> <<"c">>, duration_months |-> 12] >>,
     bio |-> <<>>, interests |-> <<>>]

BadProfile == [StrongProfile EXCEPT !.skills_valid = FALSE]

\* Rows of table users, without the id.
UserKinds ==
    {[role |-> "student", is_active |-> TRUE, profile_data |-> StrongProfile],
     [role |-> "student", is_active |-> TRUE, profile_data |-> MidProfile],
     [role |-> "student", is_active |-> TRUE, profile_data |-> BadProfile],
     [role |-> "student", is_active |-> FALSE, profile_data |-> StrongProfile],
     [role |-> "tpo", is_active |-> TRUE, profile_data |-> StrongProfile]}

\* The user tables: up to MaxStudents rows, ids by position.
UserTables ==
    UNION {[1..n -> UserKinds] : n \in 0..MaxStudents}

WithIds(kinds) ==
    [i \in 1..Len(kinds) |->
        [id |-> i, role |-> kinds[i].role, is_active |-> kinds[i].is_active,
         profile_data |-> kinds[i].profile_data]]

(***************************************************************************)
(* State                                                                   *)
(***************************************************************************)
VARIABLES
    users,          \* table users, in the order a query returns it
    store,          \* table ai_matches, in insertion order
    cache,          \* self.embedding_cache: key -> [embedding, timestamp]
    now,            \* time.time()
    pc,             \* where the find_matches invocation stands
    job_id,         \* arguments of the invocation
    min_score,
    limit,
    job_embedding,  \* _semantic_matching: the job's vector
    students,       \* the candidate pool the running phase loaded
    idx,            \* position of the loop in students
    matches,        \* the phase's list as the loop appended to it
    result,         \* the dictionary find_matches returned
    ticks,          \* clock advances made
    trace,          \* what the invocation did: provider calls, writes, phases
    sess,           \* database sessions running _store_match
    stored,         \* pair -> the arguments of its last committed store
    calls,          \* calls of _store_match made
    last,           \* the last call of _get_embedding and what it did
    call,           \* the scoring function called on its own, and its arguments
    ret,            \* what that call returned
    tasks,          \* tasks inside _get_embedding, split at the provider call
    race,           \* what the provider answered and the cache writes made
    invocations     \* invocations of find_matches that have returned

vars ==
    <<users, store, cache, now, pc, job_id, min_score, limit, job_embedding,
      students, idx, matches, result, ticks, trace, sess, stored, calls, last,
      call, ret, tasks, race, invocations>>

\* The variables find_matches does not touch.
aux == <<sess, stored, calls, last, call, ret, tasks, race, invocations>>

NoResult == [method_used |-> "pending", matches |-> <<>>, error |-> "pending"]

NoTrace ==
    [provider_calls |-> 0, provider_ok |-> 0, written |-> {},
     load |-> "pending", semantic |-> "not_run", semantic_len |-> 0,
     rule |-> "not_run",
     cache_at_start |-> <<>>, store_at_start |-> <<>>]

\* Faulty variant: the role filter is lost.
ActiveStudentsAnyRole(us) == SelectSeq(us, LAMBDA u : u.is_active)

\* Faulty variant: the pool ends at the first candidate whose processing
\* raises, as if the exception ended the loop.
ActiveStudentsUntilFailure(us) ==
    LET pool == SelectSeq(us, LAMBDA u : u.role = "student" /\ u.is_active)
        bad == {i \in 1..Len(pool) : ~pool[i].profile_data.skills_valid}
    IN  IF bad = {} THEN pool
        ELSE SubSeq(pool, 1, (CHOOSE i \in bad : \A j \in bad : i <= j) - 1)

\* db.query(User).filter(role == "student", is_active == True).all()
ActiveStudents(us) ==
    SelectSeq(us, LAMBDA u : u.role = "student" /\ u.is_active)

\* A database session that is not inside _store_match.
NoSession == [pc |-> "idle", existing_match |-> 0, args |-> <<>>]

\* No call of _get_embedding was made yet.
NoCall ==
    [key |-> <<>>, present |-> FALSE, before |-> <<>>, at |-> 0,
     outcome |-> <<>>, called |-> FALSE, ok |-> FALSE, embedding |-> <<>>,
     text |-> <<>>]

\* Database sessions (one per request, get_db) that may be open at once.
MaxSessions == 2

Sessions == 1..MaxSessions

\* Tasks that may be inside _get_embedding at once.
MaxTasks == 2

Tasks == 1..MaxTasks

\* A task that is not inside _get_embedding.
NoTask == [pc |-> "idle"]

\* Nothing was answered by the provider or written to the cache yet.
NoRace == [answers |-> {}, last_write |-> <<>>, evicted |-> {}, lookups |-> 0]

\* MatchingService() was constructed, the match table is empty and no request
\* is running.
Constructed ==
    /\ store = <<>>
    /\ cache = <<>>
    /\ now = 0
    /\ pc = "idle"
    /\ job_id = 0
    /\ min_score = 0
    /\ limit = 0
    /\ job_embedding = <<>>
    /\ students = <<>>
    /\ idx = 0
    /\ matches = <<>>
    /\ result = NoResult
    /\ ticks = 0
    /\ trace = NoTrace
    /\ sess = [s \in Sessions |-> NoSession]
    /\ stored = <<>>
    /\ calls = 0
    /\ last = NoCall
    /\ call = [fn |-> "none"]
    /\ ret = <<>>
    /\ tasks = [t \in Tasks |-> NoTask]
    /\ race = NoRace
    /\ invocations = 0

Init ==
    /\ users \in {WithIds(k) : k \in UserTables}
    /\ Constructed

(***************************************************************************)
(* find_matches, step by step                                              *)
(***************************************************************************)
\* A caller invokes find_matches(job_id, db, min_score, limit).
Request(j, ms, lim) ==
    /\ pc = "idle"
    /\ pc' = "load_job"
    /\ job_id' = j
    /\ min_score' = ms
    /\ limit' = lim
    /\ job_embedding' = <<>>
    /\ students' = <<>>
    /\ idx' = 0
    /\ matches' = <<>>
    /\ result' = NoResult
    /\ trace' = [NoTrace EXCEPT !.cache_at_start = cache, !.store_at_start = store]
    /\ UNCHANGED <<aux, users, store, cache, now, ticks>>

\* The dictionaries find_matches returns. error = "" stands for a dictionary
\* without the key "error".
NotFoundResult ==
    [method_used |-> "none", matches |-> <<>>, error |-> "Job not found"]

SemanticResult(ms) == [method_used |-> "semantic", matches |-> ms, error |-> ""]

RuleBasedResult(ms) == [method_used |-> "rule_based", matches |-> ms, error |-> ""]

\* Faulty variant: the outer except answers like an empty rule-based run.
ErrorResultAsEmpty == RuleBasedResult(<<>>)

\* Lines 121-128: the outer except; "exception" stands for str(e).
ErrorResult == [method_used |-> "error", matches |-> <<>>, error |-> "exception"]

Finish(res) ==
    /\ pc' = "done"
    /\ result' = res

\* Faulty variant: the `if not job` test is lost.
JobFoundAlways(j) == TRUE

\* Lines 81-82: db.query(Job).filter(Job.id == job_id).first() found a job.
JobFound(j) == j \in DOMAIN Jobs

\* Lines 79-89: the job query. It raises (outer except, "error"), finds no
\* job ("none") or finds the job.
LoadJob ==
    /\ pc = "load_job"
    /\ \E raised \in BOOLEAN :
          IF raised
          THEN /\ Finish(ErrorResult)
               /\ trace' = [trace EXCEPT !.load = "raised"]
          ELSE IF ~JobFound(job_id)
          THEN /\ Finish(NotFoundResult)
               /\ trace' = [trace EXCEPT !.load = "missing"]
          ELSE /\ pc' = "semantic_job"
               /\ trace' = [trace EXCEPT !.load = "found"]
               /\ UNCHANGED result
    /\ UNCHANGED <<aux, users, store, cache, now, job_id, min_score, limit,
                   job_embedding, students, idx, matches, ticks>>

CountCall(tr, r) ==
    [tr EXCEPT !.provider_calls = @ + (IF r.called THEN 1 ELSE 0),
               !.provider_ok = @ + (IF r.called /\ r.ok THEN 1 ELSE 0)]

\* Lines 151-157: the job's embedding; None ends the phase with [].
SemanticJobEmbedding ==
    /\ pc = "semantic_job"
    /\ \E outcome \in ProviderOutcomes :
          LET r == GetEmbedding(cache, now, JobKey(job_id), outcome)
          IN  /\ cache' = r.cache
              /\ IF r.ok
                 THEN /\ job_embedding' = r.embedding
                      /\ pc' = "semantic_query"
                      /\ trace' = [CountCall(trace, r) EXCEPT !.semantic = "running"]
                 ELSE /\ job_embedding' = <<>>
                      /\ pc' = "rule_query"
                      /\ trace' = [CountCall(trace, r) EXCEPT !.semantic = "returned"]
    /\ UNCHANGED <<aux, users, store, now, job_id, min_score, limit, students, idx,
                   matches, result, ticks>>

\* Lines 159-165: the candidate query of the semantic phase; when it raises,
\* the phase raises and find_matches logs it (lines 107-108).
SemanticQuery ==
    /\ pc = "semantic_query"
    /\ \E raised \in BOOLEAN :
          IF raised
          THEN /\ pc' = "rule_query"
               /\ trace' = [trace EXCEPT !.semantic = "raised"]
               /\ UNCHANGED <<students, idx>>
          ELSE /\ pc' = "semantic_loop"
               /\ students' = ActiveStudents(users)
               /\ idx' = 1
               /\ UNCHANGED trace
    /\ matches' = <<>>
    /\ UNCHANGED <<aux, users, store, cache, now, job_id, min_score, limit,
                   job_embedding, result, ticks>>

\* The explanation strings of the two phases.
SemanticExplanation(similarity, rule_boost, final_score) ==
    [similarity |-> Fmt3(similarity), rule_boost |-> Fmt3(rule_boost),
     final_score |-> Fmt3(final_score)]

RuleExplanation(score) == [rule_score |-> Fmt3(score)]

MatchResult(student, score, matched_skills, explanation, method) ==
    [student_id |-> student.id, job_id |-> job_id, score |-> score,
     matched_skills |-> matched_skills, explanation |-> explanation,
     method_used |-> method]

\* Faulty variant: a failed call leaves its write in the table.
StoreAfterNoRollback(st, m, committed) ==
    StoreMatch(st, m.student_id, m.job_id, m.score, m.matched_skills,
               m.explanation)

\* Lines 211-215 and 283-287: the call of _store_match. A failure of the
\* lookup, the add or the commit is rolled back inside _store_match and
\* leaves the table as it was.
StoreAfter(st, m, committed) ==
    IF committed
    THEN StoreMatch(st, m.student_id, m.job_id, m.score, m.matched_skills,
                    m.explanation)
    ELSE st

WrittenAfter(tr, m, committed) ==
    IF committed
    THEN [tr EXCEPT !.written = @ \cup
             {[student_id |-> m.student_id, job_id |-> m.job_id,
               score |-> m.score, method |-> m.method_used]}]
    ELSE tr

\* Faulty variant: the threshold test is lost.
MeetsThresholdAlways(score, ms) == TRUE

\* Lines 186 and 262: `if final_score >= min_score`, `if score >= min_score`.
MeetsThreshold(score, ms) == score >= ms

\* Lines 167-219: one pass of the semantic loop.
SemanticCandidate ==
    /\ pc = "semantic_loop"
    /\ idx <= Len(students)
    /\ LET student == students[idx]
       IN  IF ~student.profile_data.skills_valid
           THEN \* _create_student_text raises; lines 217-219 skip the student
                UNCHANGED <<cache, store, matches, trace>>
           ELSE \E outcome \in ProviderOutcomes, committed \in BOOLEAN :
                   LET r == GetEmbedding(cache, now, StudentKey(student.id), outcome)
                       similarity == CosineSimilarity(job_embedding, r.embedding)
                       rule_boost == CalculateRuleScore(student, Jobs[job_id])
                       final_score == FinalScore(similarity, rule_boost)
                       m == MatchResult(student, final_score,
                               ExtractMatchedSkills(student.profile_data.skills,
                                                    Jobs[job_id].requirements),
                               SemanticExplanation(similarity, rule_boost, final_score),
                               "semantic")
                   IN  /\ cache' = r.cache
                       /\ IF r.ok /\ MeetsThreshold(final_score, min_score)
                          THEN /\ matches' = Append(matches, m)
                               /\ store' = StoreAfter(store, m, committed)
                               /\ trace' = WrittenAfter(CountCall(trace, r), m, committed)
                          ELSE /\ trace' = CountCall(trace, r)
                               /\ UNCHANGED <<matches, store>>
    /\ idx' = idx + 1
    /\ UNCHANGED <<aux, users, now, pc, job_id, min_score, limit, job_embedding,
                   students, result, ticks>>

\* Faulty variant: the semantic list is returned also when it is empty.
SemanticSucceededAlways(ms) == TRUE

\* Line 96: `if matches:`.
SemanticSucceeded(ms) == ms # <<>>

\* Lines 221-226 and 96-105: sort, truncate, return; a non-empty list is the
\* result of find_matches, an empty one sends it to the rule-based phase.
SemanticFinish ==
    /\ pc = "semantic_loop"
    /\ idx > Len(students)
    /\ LET ms == SortAndLimit(matches, limit)
       IN  IF SemanticSucceeded(ms)
           THEN Finish(SemanticResult(ms))
           ELSE pc' = "rule_query" /\ UNCHANGED result
    /\ trace' = [trace EXCEPT !.semantic = "returned",
                              !.semantic_len = Len(SortAndLimit(matches, limit))]
    /\ UNCHANGED <<aux, users, store, cache, now, job_id, min_score, limit,
                   job_embedding, students, idx, matches, ticks>>

\* Lines 249-255: the candidate query of the rule-based phase; when it raises,
\* the outer except of find_matches returns "error".
RuleQuery ==
    /\ pc = "rule_query"
    /\ \E raised \in BOOLEAN :
          IF raised
          THEN /\ Finish(ErrorResult)
               /\ trace' = [trace EXCEPT !.rule = "raised"]
               /\ UNCHANGED <<students, idx, matches>>
          ELSE /\ pc' = "rule_loop"
               /\ students' = ActiveStudents(users)
               /\ idx' = 1
               /\ matches' = <<>>
               /\ trace' = [trace EXCEPT !.rule = "running"]
               /\ UNCHANGED result
    /\ UNCHANGED <<aux, users, store, cache, now, job_id, min_score, limit,
                   job_embedding, ticks>>

\* Lines 257-291: one pass of the rule-based loop.
RuleCandidate ==
    /\ pc = "rule_loop"
    /\ idx <= Len(students)
    /\ LET student == students[idx]
       IN  IF ~student.profile_data.skills_valid
           THEN \* skill.lower() raises; lines 289-291 skip the student
                UNCHANGED <<store, matches, trace>>
           ELSE \E committed \in BOOLEAN :
                   LET score == CalculateDetailedRuleScore(student, Jobs[job_id])
                       m == MatchResult(student, score,
                               ExtractMatchedSkills(student.profile_data.skills,
                                                    Jobs[job_id].requirements),
                               RuleExplanation(score), "rule_based")
                   IN  IF MeetsThreshold(score, min_score)
                       THEN /\ matches' = Append(matches, m)
                            /\ store' = StoreAfter(store, m, committed)
                            /\ trace' = WrittenAfter(trace, m, committed)
                       ELSE UNCHANGED <<matches, store, trace>>
    /\ idx' = idx + 1
    /\ UNCHANGED <<aux, users, cache, now, pc, job_id, min_score, limit,
                   job_embedding, students, result, ticks>>

\* Lines 293-298 and 114-119.
RuleFinish ==
    /\ pc = "rule_loop"
    /\ idx > Len(students)
    /\ Finish(RuleBasedResult(SortAndLimit(matches, limit)))
    /\ trace' = [trace EXCEPT !.rule = "returned"]
    /\ UNCHANGED <<aux, users, store, cache, now, job_id, min_score, limit,
                   job_embedding, students, idx, matches, ticks>>

Next ==
    \/ \E j \in RequestJobIds, ms \in MinScores, lim \in Limits : Request(j, ms, lim)
    \/ LoadJob
    \/ SemanticJobEmbedding
    \/ SemanticQuery
    \/ SemanticCandidate
    \/ SemanticFinish
    \/ RuleQuery
    \/ RuleCandidate
    \/ RuleFinish

Spec == Init /\ [][Next]_vars

(***************************************************************************)
(* _store_match on its own: called in sequence, and from several sessions  *)
(***************************************************************************)
\* Calls of _store_match in one behaviour.
MaxStores == 3

\* Student ids the calls are made for.
StoreStudents == {1, 2}

\* score, matched_skills and explanation of a call.
StoreValues ==
    {[score |-> Dec(3, 10), matched_skills |-> <<>>,
      explanation |-> RuleExplanation(Dec(3, 10))],
     [score |-> Dec(3, 10), matched_skills |-> << <<"a">> >>,
      explanation |-> RuleExplanation(Dec(3, 10))],
     [score |-> Dec(9, 10), matched_skills |-> << <<"a">> >>,
      explanation |-> RuleExplanation(Dec(9, 10))],
     [score |-> Dec(9, 10), matched_skills |-> << <<"a">> >>,
      explanation |-> SemanticExplanation(Dec(8, 10), Dec(5, 10), Dec(9, 10))]}

\* The variables _store_match does not touch.
matching ==
    <<users, cache, now, pc, job_id, min_score, limit, job_embedding,
      students, idx, matches, result, ticks, trace, last, call, ret, tasks,
      race, invocations>>

\* History: the committed call for pair p with values v is the last one.
StoredAfter(h, p, v) ==
    [q \in DOMAIN h \cup {p} |->
        IF q = p
        THEN [value |-> v, n |-> IF p \in DOMAIN h THEN h[p].n + 1 ELSE 1]
        ELSE h[q]]

\* One whole call of _store_match. committed = FALSE: the lookup, the add or
\* the commit raised and the session rolled back (lines 710-712).
StoreCall(student_id, j, v, committed) ==
    /\ calls < MaxStores
    /\ calls' = calls + 1
    /\ store' = IF committed
                THEN StoreMatch(store, student_id, j, v.score, v.matched_skills,
                                v.explanation)
                ELSE store
    /\ stored' = IF committed
                 THEN StoredAfter(stored, <<student_id, j>>, v)
                 ELSE stored
    /\ UNCHANGED <<matching, sess>>

NextStoreSeq ==
    \E student_id \in StoreStudents, j \in DOMAIN Jobs, v \in StoreValues,
       committed \in BOOLEAN :
        StoreCall(student_id, j, v, committed)

InitStore ==
    /\ users = <<>>
    /\ Constructed

SpecStoreSeq == InitStore /\ [][NextStoreSeq]_vars

\* Session s enters _store_match and runs the lookup (lines 684-687) against
\* the committed rows.
StoreQuery(s, student_id, j, v) ==
    /\ sess[s].pc = "idle"
    /\ calls < MaxStores
    /\ calls' = calls + 1
    /\ sess' = [sess EXCEPT ![s] =
                   [pc |-> "queried",
                    existing_match |-> ExistingMatch(store, student_id, j),
                    args |-> [student_id |-> student_id, job_id |-> j, value |-> v]]]
    /\ UNCHANGED <<matching, store, stored>>

\* Session s updates the row it found or adds a row, and commits (lines
\* 689-709); committed = FALSE: rolled back (lines 710-712).
StoreCommit(s, committed) ==
    /\ sess[s].pc = "queried"
    /\ LET a == sess[s].args
       IN  /\ store' = IF committed
                       THEN WriteMatch(store, sess[s].existing_match, a.student_id,
                                       a.job_id, a.value.score,
                                       a.value.matched_skills, a.value.explanation)
                       ELSE store
           /\ stored' = IF committed
                        THEN StoredAfter(stored, <<a.student_id, a.job_id>>, a.value)
                        ELSE stored
    /\ sess' = [sess EXCEPT ![s] = NoSession]
    /\ UNCHANGED <<matching, calls>>

NextStore ==
    \/ \E s \in Sessions, student_id \in StoreStudents, j \in DOMAIN Jobs,
          v \in StoreValues :
           StoreQuery(s, student_id, j, v)
    \/ \E s \in Sessions, committed \in BOOLEAN : StoreCommit(s, committed)

SpecStore == InitStore /\ [][NextStore]_vars

(***************************************************************************)
(* _get_embedding on its own, with the clock                               *)
(***************************************************************************)
\* Clock advances in one behaviour.
MaxTicks == 2

\* Seconds the clock advances by.
TickSteps == {1, cache_ttl - 1, cache_ttl}

CacheKeys == {JobKey(1), StudentKey(1)}

\* The texts a key is looked up with: the text of a job or of a profile
\* before and after it was edited.
Texts == {"before edit", "after edit"}

\* The vector the provider computes from a text; the two texts have
\* different vectors.
Embed(text) == IF text = "before edit" THEN <<1, 0>> ELSE <<0, 1>>

\* The provider's answer to one call with a text: its vector, or a failure.
ProviderAnswers(text) == {Embed(text), ProviderFail}

\* One whole call of _get_embedding(cache_key, text) with the provider
\* answering outcome if it is called.
EmbeddingCall(cache_key, text, outcome) ==
    LET r == GetEmbedding(cache, now, cache_key, outcome)
        present == cache_key \in DOMAIN cache
    IN  /\ cache' = r.cache
        /\ last' = [key |-> cache_key, present |-> present,
                    before |-> IF present THEN cache[cache_key] ELSE <<>>,
                    at |-> now, outcome |-> outcome, called |-> r.called,
                    ok |-> r.ok, embedding |-> r.embedding, text |-> text]
        /\ UNCHANGED <<users, store, now, pc, job_id, min_score, limit,
                       job_embedding, students, idx, matches, result, ticks,
                       trace, sess, stored, calls, call, ret, tasks, race,
                       invocations>>

\* time.time() advances.
Tick(d) ==
    /\ ticks < MaxTicks
    /\ ticks' = ticks + 1
    /\ now' = now + d
    /\ UNCHANGED <<users, store, cache, pc, job_id, min_score, limit,
                   job_embedding, students, idx, matches, result, trace,
                   sess, stored, calls, last, call, ret, tasks, race,
                   invocations>>

NextCache ==
    \/ \E cache_key \in CacheKeys, text \in Texts :
           \E outcome \in ProviderAnswers(text) :
               EmbeddingCall(cache_key, text, outcome)
    \/ \E d \in TickSteps : Tick(d)

SpecCache == InitStore /\ [][NextCache]_vars

(***************************************************************************)
(* _get_embedding split at the provider call                               *)
(***************************************************************************)
\* Calls of _get_embedding in one behaviour.
MaxLookups == 3

\* The variables the split call does not touch.
restOfService ==
    <<users, store, pc, job_id, min_score, limit, job_embedding, students,
      idx, matches, result, trace, sess, stored, calls, last, call, ret,
      invocations>>

\* Task t enters _get_embedding(cache_key, text) and runs the cache check
\* (lines 312-319): a hit returns, a miss goes on to call the provider.
LookupStart(t, cache_key) ==
    /\ tasks[t].pc \in {"idle", "returned"}
    /\ race.lookups < MaxLookups
    /\ LET chk == CacheLookup(cache, now, cache_key)
       IN  /\ cache' = chk.cache
           /\ tasks' = [tasks EXCEPT ![t] =
                  IF chk.hit
                  THEN [pc |-> "returned", key |-> cache_key, ok |-> TRUE,
                        embedding |-> chk.embedding, called |-> FALSE, at |-> now]
                  ELSE [pc |-> "calling", key |-> cache_key]]
           /\ race' = [race EXCEPT
                  !.lookups = @ + 1,
                  !.evicted = IF cache_key \in DOMAIN cache
                                 /\ cache_key \notin DOMAIN chk.cache
                              THEN @ \cup {cache_key} ELSE @]
    /\ UNCHANGED <<restOfService, now, ticks>>

\* The provider call of task t returns or raises (lines 321-350): an answer
\* is written to the cache with the current time and returned.
ProviderReturn(t, outcome) ==
    /\ tasks[t].pc = "calling"
    /\ LET cache_key == tasks[t].key
           fill == CacheFill(cache, now, cache_key, outcome)
       IN  /\ cache' = fill.cache
           /\ tasks' = [tasks EXCEPT ![t] =
                  [pc |-> "returned", key |-> cache_key, ok |-> fill.ok,
                   embedding |-> fill.embedding, called |-> TRUE, at |-> now]]
           /\ race' = IF outcome = ProviderFail THEN race
                      ELSE [race EXCEPT
                          !.answers = @ \cup {<<cache_key, outcome>>},
                          !.evicted = @ \ {cache_key},
                          !.last_write =
                              [k \in DOMAIN @ \cup {cache_key} |->
                                  IF k = cache_key
                                  THEN [embedding |-> outcome, timestamp |-> now]
                                  ELSE @[k]]]
    /\ UNCHANGED <<restOfService, now, ticks>>

NextCacheRace ==
    \/ \E t \in Tasks, cache_key \in CacheKeys : LookupStart(t, cache_key)
    \/ \E t \in Tasks, outcome \in ProviderOutcomes : ProviderReturn(t, outcome)
    \/ \E d \in TickSteps : Tick(d)

SpecCacheRace == InitStore /\ [][NextCacheRace]_vars

(***************************************************************************)
(* find_matches invoked again and again on one database                   *)
(***************************************************************************)
\* Invocations of find_matches in one behaviour.
MaxInvocations == 2

\* The user table of these behaviours: MaxStudents active students, the
\* first with the strong profile.
RepeatUsers ==
    WithIds([i \in 1..MaxStudents |->
                [role |-> "student", is_active |-> TRUE,
                 profile_data |-> IF i = 1 THEN StrongProfile ELSE MidProfile]])

\* min_score of these invocations: everyone passes, or the best only.
RepeatMinScores == {0, Dec(6, 10)}

InitRepeat ==
    /\ users = RepeatUsers
    /\ Constructed

\* find_matches has returned to its caller: its arguments and locals are
\* gone; the database and the service's cache stay.
NextInvocation ==
    /\ pc = "done"
    /\ invocations + 1 < MaxInvocations
    /\ invocations' = invocations + 1
    /\ pc' = "idle"
    /\ job_id' = 0
    /\ min_score' = 0
    /\ limit' = 0
    /\ job_embedding' = <<>>
    /\ students' = <<>>
    /\ idx' = 0
    /\ matches' = <<>>
    /\ result' = NoResult
    /\ trace' = NoTrace
    /\ UNCHANGED <<users, store, cache, now, ticks, sess, stored, calls, last,
                   call, ret, tasks, race>>

\* Between two invocations a student's row is set inactive (column
\* users.is_active, written by the rest of the application).
AccountChange(i) ==
    /\ pc = "idle"
    /\ invocations >= 1
    /\ users[i].is_active
    /\ users' = [users EXCEPT ![i].is_active = FALSE]
    /\ UNCHANGED <<store, cache, now, pc, job_id, min_score, limit,
                   job_embedding, students, idx, matches, result, ticks, trace,
                   aux>>

NextRepeat ==
    \/ \E j \in DOMAIN Jobs, ms \in RepeatMinScores : Request(j, ms, MaxLimit)
    \/ LoadJob
    \/ SemanticJobEmbedding
    \/ SemanticQuery
    \/ SemanticCandidate
    \/ SemanticFinish
    \/ RuleQuery
    \/ RuleCandidate
    \/ RuleFinish
    \/ NextInvocation
    \/ \E i \in DOMAIN users : AccountChange(i)

SpecRepeat == InitRepeat /\ [][NextRepeat]_vars

(***************************************************************************)
(* The scoring functions called on their own                               *)
(***************************************************************************)
\* Largest absolute value of a vector component.
MaxComponent == 4

\* Longest vector.
MaxDim == 2

\* The vectors the functions are called with: those whose norm is a whole
\* number, so that Norm is exact on them.
CosineVectors ==
    {v \in UNION {[1..n -> (-MaxComponent)..MaxComponent] : n \in 0..MaxDim} :
        Norm(v) * Norm(v) = Dot(v, v)}

\* What a call gave back: a value, or an exception. One call is made in a
\* behaviour.
Returned(x) == [raised |-> FALSE, value |-> x]

\* The variables a scoring function does not touch.
service ==
    <<users, store, cache, now, pc, job_id, min_score, limit, job_embedding,
      students, idx, matches, result, ticks, trace, sess, stored, calls, last,
      tasks, race, invocations>>

\* _cosine_similarity(vec1, vec2): every exception inside is caught (lines
\* 381-383), so the call always returns.
CosineCall(vec1, vec2) ==
    /\ call.fn = "none"
    /\ call' = [fn |-> "cosine", vec1 |-> vec1, vec2 |-> vec2]
    /\ ret' = Returned(CosineSimilarity(vec1, vec2))
    /\ UNCHANGED service

\* Longest skill list and requirement list of a call.
MaxSkills == 2

\* Skill and requirement strings: the same word in different casing and with
\* blanks around it, a word inside another one, unrelated words.
SkillWords ==
    {<<"P", "y", "t", "h", "o", "n">>, <<"p", "y", "t", "h", "o", "n">>,
     <<"p", "y">>, <<"J", "a", "v", "a">>, <<"S", "Q", "L">>,
     <<" ", "s", "q", "l", " ">>}

SkillLists == UNION {[1..n -> SkillWords] : n \in 0..MaxSkills}

\* _extract_matched_skills(student_skills, job_requirements)
ExtractCall(student_skills, job_requirements) ==
    /\ call.fn = "none"
    /\ call' = [fn |-> "extract", student_skills |-> student_skills,
                job_requirements |-> job_requirements]
    /\ ret' = Returned(ExtractMatchedSkills(student_skills, job_requirements))
    /\ UNCHANGED service

\* Longest education list of a call.
MaxEducation == 2

\* Education entries: two that match the requirements of the jobs by field,
\* one that matches none, and one whose degree contains a requirement while
\* its field matches none. gpa is in tenths.
EducationEntries ==
    {[field |-> <<"a">>, degree |-> <<"b">>, gpa |-> 30],
     [field |-> <<"b", "c">>, degree |-> Master, gpa |-> 38],
     [field |-> <<"x">>, degree |-> <<"y">>, gpa |-> 20],
     [field |-> <<"x">>, degree |-> <<"a", "b">>, gpa |-> 35]}

EducationLists == UNION {[1..n -> EducationEntries] : n \in 0..MaxEducation}

\* Longest experience list of a call.
MaxExperience == 2

\* Experience entries: a description that contains a requirement, one that
\* is contained in a requirement and contains none, one that contains two
\* requirements, one that is unrelated; durations on every tier.
ExperienceEntries ==
    {[description |-> <<"a">>, duration_months |-> 12],
     [description |-> <<"b">>, duration_months |-> 0],
     [description |-> <<"A", "b", "c">>, duration_months |-> 30],
     [description |-> <<"x">>, duration_months |-> 6]}

ExperienceLists == UNION {[1..n -> ExperienceEntries] : n \in 0..MaxExperience}

\* The students and jobs the rule scores are called with.
ScoredStudents ==
    {[id |-> 1, role |-> "student", is_active |-> TRUE,
      profile_data |-> [skills |-> s, skills_valid |-> TRUE, education |-> e,
                        experience |-> x, bio |-> <<>>, interests |-> <<>>]] :
        s \in {<<>>, << <<"a">> >>},
        e \in EducationLists,
        x \in ExperienceLists}

ScoredJobs == {Jobs[j] : j \in DOMAIN Jobs} \cup {[id |-> 3, requirements |-> <<>>]}

\* Students that have skills only, and jobs that require such skills.
SkilledStudents ==
    {[id |-> 1, role |-> "student", is_active |-> TRUE,
      profile_data |-> [skills |-> s, skills_valid |-> TRUE, education |-> <<>>,
                        experience |-> <<>>, bio |-> <<>>, interests |-> <<>>]] :
        s \in SkillLists}

SkilledJobs == {[id |-> 4, requirements |-> r] : r \in SkillLists}

ScoredPairs ==
    (ScoredStudents \X ScoredJobs) \cup (SkilledStudents \X SkilledJobs)

\* _calculate_rule_score(student, job)
RuleScoreCall(student, job) ==
    /\ call.fn = "none"
    /\ call' = [fn |-> "rule_score", student |-> student, job |-> job]
    /\ ret' = Returned(CalculateRuleScore(student, job))
    /\ UNCHANGED service

\* _calculate_detailed_rule_score(student, job)
DetailedScoreCall(student, job) ==
    /\ call.fn = "none"
    /\ call' = [fn |-> "detailed_score", student |-> student, job |-> job]
    /\ ret' = Returned(CalculateDetailedRuleScore(student, job))
    /\ UNCHANGED service

NextPure ==
    \/ \E vec1, vec2 \in CosineVectors : CosineCall(vec1, vec2)
    \/ \E student_skills, job_requirements \in SkillLists :
           ExtractCall(student_skills, job_requirements)
    \/ \E p \in ScoredPairs : RuleScoreCall(p[1], p[2])
    \/ \E p \in ScoredPairs : DetailedScoreCall(p[1], p[2])

SpecPure == InitStore /\ [][NextPure]_vars

(***************************************************************************)
(* Properties of one find_matches invocation                               *)
(***************************************************************************)
InUnit(x) == x \in 0..One

Done == pc = "done"

SeqSet(ms) == {ms[i] : i \in 1..Len(ms)}

StudentIdsOf(ms) == {ms[i].student_id : i \in 1..Len(ms)}

UserById(id) == CHOOSE u \in SeqSet(users) : u.id = id

\* The rows of users that are candidates: active, role "student".
IsCandidate(u) == u.role = "student" /\ u.is_active

\* The candidates whose detailed rule score is defined and >= min_score, in
\* table order.
RuleQualifiers ==
    SelectSeq(users, LAMBDA u :
        /\ IsCandidate(u)
        /\ u.profile_data.skills_valid
        /\ CalculateDetailedRuleScore(u, Jobs[job_id]) >= min_score)

NonIncreasing(ms) ==
    \A a, b \in 1..Len(ms) : a < b => ms[a].score >= ms[b].score

\* out is inp sorted by score descending, equal scores in the order of inp,
\* cut to the first lim elements: the element of inp with k - 1 elements
\* ranked before it is out[k].
RankIn(inp, i) ==
    1 + Cardinality({j \in 1..Len(inp) :
            \/ inp[j].score > inp[i].score
            \/ inp[j].score = inp[i].score /\ j < i})

IsStableTop(out, inp, lim) ==
    /\ Len(out) = Min(lim, Len(inp))
    /\ \A i \in 1..Len(inp) :
          RankIn(inp, i) <= Len(out) => out[RankIn(inp, i)] = inp[i]

\* C1: when the job was loaded and every call of the embedding provider
\* failed (and the rule-based phase did not raise), find_matches returns
\* "rule_based" and its matches are exactly the active role-"student" users
\* whose detailed rule score is >= min_score, by score descending, cut to limit.
C1_FallbackWhenProviderFails ==
    (Done /\ trace.load = "found" /\ trace.provider_ok = 0 /\ trace.rule # "raised")
    => /\ result.method_used = "rule_based"
       /\ Len(result.matches) = Min(limit, Len(RuleQualifiers))
       /\ Cardinality(StudentIdsOf(result.matches)) = Len(result.matches)
       /\ \A k \in 1..Len(result.matches) :
             /\ result.matches[k].method_used = "rule_based"
             /\ \E u \in SeqSet(RuleQualifiers) :
                   /\ u.id = result.matches[k].student_id
                   /\ result.matches[k].score =
                          CalculateDetailedRuleScore(u, Jobs[job_id])
       /\ NonIncreasing(result.matches)
       /\ \A u \in SeqSet(RuleQualifiers) :
             u.id \notin StudentIdsOf(result.matches)
             => \A k \in 1..Len(result.matches) :
                   result.matches[k].score >= CalculateDetailedRuleScore(u, Jobs[job_id])

\* C1 witness: the provider was called and never answered, two students
\* qualify by the rules and limit 1 returns the better one.
C1_Witness ==
    /\ Done
    /\ trace.provider_calls >= 1
    /\ trace.provider_ok = 0
    /\ result.method_used = "rule_based"
    /\ limit = 1
    /\ Len(RuleQualifiers) = 2
    /\ StudentIdsOf(result.matches) = {2}

\* C2: when no job has the given id, the invocation ends right after the job
\* query with matches [], method "none", error "Job not found", and calls no
\* provider and writes neither the cache nor the match store.
C2_JobNotFound ==
    (pc # "idle" /\ job_id \notin DOMAIN Jobs /\ trace.load # "raised")
    => /\ pc \in {"load_job", "done"}
       /\ trace.provider_calls = 0
       /\ cache = trace.cache_at_start
       /\ store = trace.store_at_start
       /\ trace.written = {}
       /\ Done => result = [method_used |-> "none", matches |-> <<>>,
                            error |-> "Job not found"]

\* C2 witness: a finished invocation for the absent job over a table with a
\* qualifying student.
C2_Witness ==
    /\ Done
    /\ job_id \notin DOMAIN Jobs
    /\ result.method_used = "none"
    /\ \E u \in SeqSet(users) : IsCandidate(u)

\* What C3 says of every state apart from the meaning of an empty rule-based
\* list: the invocation is at one of its steps (a loop at one of its
\* candidates or at its end), its result is one of the four structured kinds,
\* an exception in the job load or in the rule-based phase outside the loop
\* gives "error" with no matches and the message, and "error" is given for
\* nothing else.
StructuredResult ==
    /\ pc \in {"idle", "load_job", "semantic_job", "semantic_query",
               "semantic_loop", "rule_query", "rule_loop", "done"}
    /\ pc \in {"semantic_loop", "rule_loop"}
       => (job_id \in DOMAIN Jobs /\ idx \in 1..(Len(students) + 1))
    /\ Done => result.method_used \in {"semantic", "rule_based", "none", "error"}
    /\ (Done /\ (trace.load = "raised" \/ trace.rule = "raised"))
       => result = [method_used |-> "error", matches |-> <<>>, error |-> "exception"]
    /\ (Done /\ result.method_used = "error")
       => (trace.load = "raised" \/ trace.rule = "raised")

\* C3 as stated: ... and an empty "rule_based" list means that no candidate
\* met the threshold.
C3_Original ==
    /\ StructuredResult
    /\ (Done /\ result.method_used = "rule_based" /\ result.matches = <<>>)
       => RuleQualifiers = <<>>

\* Steps the invocation has left at most: the phases ahead and the
\* candidates the loops have not reached.
StepsLeft ==
    LET n == Len(users)
        ahead == Len(students) + 1 - idx
    IN  CASE pc = "idle" -> 2 * n + 9
          [] pc = "load_job" -> 2 * n + 8
          [] pc = "semantic_job" -> 2 * n + 7
          [] pc = "semantic_query" -> 2 * n + 6
          [] pc = "semantic_loop" -> n + 4 + ahead
          [] pc = "rule_query" -> n + 3
          [] pc = "rule_loop" -> 1 + ahead
          [] pc = "done" -> 0

\* C3 as amended: every step of an invocation brings it closer to its end,
\* it ends with a structured result, ... and an empty "rule_based" list means
\* that no candidate met the threshold or that limit is 0.
C3_StructuredResult ==
    /\ [](/\ StructuredResult
          /\ StepsLeft \in 0..(2 * Len(users) + 9)
          /\ (Done /\ result.method_used = "rule_based" /\ result.matches = <<>>)
             => (RuleQualifiers = <<>> \/ limit = 0))
    /\ [][StepsLeft' < StepsLeft]_vars

\* C3 witness: the candidate query of the rule-based phase raised and the
\* caller got "error".
C3_Witness ==
    /\ Done
    /\ trace.rule = "raised"
    /\ result.method_used = "error"

\* C4: for a loaded job the result is "semantic" exactly when the semantic
\* phase returned (it did not raise) a non-empty list, and then the rule-based
\* phase did not run and the matches are not empty; in every other case the
\* rule-based phase ran and, when it returned, the result is "rule_based".
C4_SemanticIffNonEmpty ==
    (Done /\ trace.load = "found")
    => /\ result.method_used = "semantic"
          <=> (trace.semantic = "returned" /\ trace.semantic_len > 0)
       /\ result.method_used = "semantic"
          => /\ trace.rule = "not_run"
             /\ result.matches # <<>>
             /\ \A w \in trace.written : w.method = "semantic"
       /\ result.method_used # "semantic"
          => /\ trace.semantic = "raised"
                \/ (trace.semantic = "returned" /\ trace.semantic_len = 0)
             /\ trace.rule \in {"returned", "raised"}
             /\ trace.rule = "returned" => result.method_used = "rule_based"

\* C4 witness: the semantic phase wrote a match, returned an empty list and
\* the rule-based phase gave the result.
C4_Witness ==
    /\ Done
    /\ trace.semantic = "returned"
    /\ trace.semantic_len = 0
    /\ \E w \in trace.written : w.method = "semantic"
    /\ result.method_used = "rule_based"

\* The score the code computes for the candidate of match m: the detailed
\* score in the rule-based phase, min(1, similarity + 0.2 * boost) of the
\* vectors obtained for the job and the student in the semantic phase.
ComputedScore(m) ==
    IF m.method_used = "rule_based"
    THEN CalculateDetailedRuleScore(UserById(m.student_id), Jobs[m.job_id])
    ELSE FinalScore(CosineSimilarity(cache[JobKey(m.job_id)].embedding,
                                     cache[StudentKey(m.student_id)].embedding),
                    CalculateRuleScore(UserById(m.student_id), Jobs[m.job_id]))

\* C5: every match collected or returned carries the score computed for its
\* candidate and that score is >= min_score; nothing below min_score is
\* written to the match store.
C5_ThresholdRespected ==
    /\ \A m \in SeqSet(matches) \cup SeqSet(result.matches) :
          m.score = ComputedScore(m) /\ m.score >= min_score
    /\ \A w \in trace.written : w.score >= min_score
    /\ \A i \in 1..Len(store) : store[i].match_score >= min_score

\* C5 witness (scenario B): min_score 0.6, one candidate above and one below,
\* only the one above is returned and stored.
C5_Witness ==
    /\ Done
    /\ min_score = Dec(6, 10)
    /\ result.method_used = "rule_based"
    /\ Len(students) = 2
    /\ CalculateDetailedRuleScore(students[1], Jobs[job_id]) < min_score
    /\ CalculateDetailedRuleScore(students[2], Jobs[job_id]) >= min_score
    /\ StudentIdsOf(result.matches) = {students[2].id}
    /\ {w.student_id : w \in trace.written} = {students[2].id}

\* Position of a student in the pool the phase loaded.
PoolPosition(id) == CHOOSE i \in 1..Len(students) : students[i].id = id

\* C6: the returned list is the first min(limit, n) of the n collected
\* candidates in a stable descending order of score: scores do not increase
\* along it and equal scores keep the order of the candidate query.
C6_StableSortAndLimit ==
    (Done /\ result.method_used \in {"semantic", "rule_based"})
    => /\ IsStableTop(result.matches, matches, limit)
       /\ NonIncreasing(result.matches)
       /\ \A a, b \in 1..Len(result.matches) :
             (a < b /\ result.matches[a].score = result.matches[b].score)
             => PoolPosition(result.matches[a].student_id)
                  < PoolPosition(result.matches[b].student_id)
       /\ \A a, b \in 1..Len(matches) :
             a < b => PoolPosition(matches[a].student_id)
                        < PoolPosition(matches[b].student_id)
       /\ result.method_used = "rule_based"
          => [i \in 1..Len(matches) |-> matches[i].student_id]
               = [i \in 1..Len(RuleQualifiers) |-> RuleQualifiers[i].id]

\* C6 witness: two candidates with equal scores and limit 1: the one the
\* query returned first is the result.
C6_Witness ==
    /\ Done
    /\ Len(matches) = 2
    /\ matches[1].score = matches[2].score
    /\ limit = 1
    /\ result.matches = <<matches[1]>>

\* Inputs at the extremes for the two rule scores: no skills, more skills
\* than requirements, no requirements, many requirements.
ManySkillsProfile ==
    [StrongProfile EXCEPT !.skills =
        << <<"a">>, <<"a", "b">>, <<"b", "a">>, <<"a", "c">>, <<"c", "a">>,
           <<"a", "a">>, <<"A", " ">>, <<"b", "c">> >>]

NoSkillsProfile == [StrongProfile EXCEPT !.skills = <<>>]

ProbeProfiles == {StrongProfile, MidProfile, ManySkillsProfile, NoSkillsProfile}

ProbeJobs ==
    {Jobs[1], Jobs[2], [id |-> 3, requirements |-> <<>>],
     [id |-> 4, requirements |->
         << <<"a">>, <<"b">>, <<"c">>, <<"a", "b">>, <<"b", "c">>, <<"c", "a">> >>]}

ProbeUsers ==
    {[id |-> 1, role |-> "student", is_active |-> TRUE, profile_data |-> p] :
        p \in ProbeProfiles}

Similarities == {CosineSimilarity(v1, v2) : v1, v2 \in Vectors}

ProbeScoresInUnit ==
    /\ \A s \in Similarities : InUnit(s)
    /\ \A u \in ProbeUsers \cup {k \in UserKinds : k.profile_data.skills_valid},
          j \in ProbeJobs :
          /\ InUnit(CalculateRuleScore(u, j))
          /\ InUnit(CalculateDetailedRuleScore(u, j))
          /\ \A s \in Similarities :
                InUnit(FinalScore(s, CalculateRuleScore(u, j)))

\* C9: every score is in [0,1]: the boost and the detailed score of every
\* kind of user against every job (and of the extreme inputs), the combined
\* semantic score for every similarity of two provider vectors, every match
\* collected or returned and every row of the match store.
C9_ScoresInUnitInterval ==
    /\ ProbeScoresInUnit
    /\ \A m \in SeqSet(matches) \cup SeqSet(result.matches) : InUnit(m.score)
    /\ \A i \in 1..Len(store) : InUnit(store[i].match_score)

\* C9 witness: a candidate whose boost and detailed sums both exceed 1 before
\* the clamp was matched semantically with similarity 1 and stored.
C9_Witness ==
    /\ Done
    /\ \E i \in 1..Len(result.matches) :
          LET u == UserById(result.matches[i].student_id)
          IN  /\ RuleScoreRaw(u, Jobs[job_id]) > One
              /\ DetailedScoreRaw(u, Jobs[job_id]) > One
              /\ result.matches[i].method_used = "semantic"
              /\ result.matches[i].score = One
              /\ \E r \in 1..Len(store) :
                    /\ store[r].student_id = u.id
                    /\ store[r].match_score = One

(***************************************************************************)
(* Properties of _store_match                                              *)
(***************************************************************************)
\* C7: after any sequence of whole calls of _store_match there is exactly one
\* row per pair that was stored, no other row, and the row holds the score,
\* matched skills and explanation of the pair's last committed call: a call
\* for a pair that has a row overwrites it, a call for a new pair adds a row.
C7_SequentialUpsert ==
    /\ Len(store) = Cardinality(DOMAIN stored)
    /\ \A p \in DOMAIN stored :
          \E i \in 1..Len(store) :
              /\ RowsOf(store, p[1], p[2]) = {i}
              /\ store[i].match_score = stored[p].value.score
              /\ store[i].matched_skills = stored[p].value.matched_skills
              /\ store[i].explanation = stored[p].value.explanation

\* C7 witness: three committed calls, two of them for the same pair, left two
\* rows.
C7_Witness ==
    /\ calls = 3
    /\ Len(store) = 2
    /\ \E p \in DOMAIN stored : stored[p].n = 2
    /\ \E p \in DOMAIN stored : stored[p].n = 1

\* C8: when calls of _store_match from several sessions interleave between
\* the lookup and the commit, the match store never holds two rows with the
\* same (student_id, job_id) pair.
C8_NoDuplicateRecords ==
    \A student_id \in StoreStudents, j \in DOMAIN Jobs :
        Cardinality(RowsOf(store, student_id, j)) <= 1

(***************************************************************************)
(* Properties of _get_embedding                                            *)
(***************************************************************************)
\* C10: a call of _get_embedding for a key whose entry was written less than
\* 3600 seconds before returns the entry's vector, leaves the entry as it was
\* and does not call the provider; a call 3600 seconds or more after the
\* write calls the provider and the old entry is gone: the key is absent when
\* the provider failed and holds the new vector, written now, when it
\* answered.
C10_CacheTtl ==
    (last # NoCall /\ last.present)
    => LET age == last.at - last.before.timestamp
       IN  /\ age < 3600
              => /\ ~last.called
                 /\ last.ok
                 /\ last.embedding = last.before.embedding
                 /\ last.key \in DOMAIN cache
                 /\ cache[last.key] = last.before
           /\ age >= 3600
              => /\ last.called
                 /\ last.outcome = ProviderFail
                    => (~last.ok /\ last.key \notin DOMAIN cache)
                 /\ last.outcome # ProviderFail
                    => /\ last.ok
                       /\ last.embedding = last.outcome
                       /\ last.key \in DOMAIN cache
                       /\ cache[last.key] = [embedding |-> last.outcome,
                                             timestamp |-> last.at]

\* C10 witness: a call exactly 3600 seconds after the entry was written
\* called the provider, which failed, and the entry is gone.
C10_Witness ==
    /\ last # NoCall
    /\ last.present
    /\ last.at - last.before.timestamp = 3600
    /\ last.called
    /\ last.outcome = ProviderFail
    /\ last.key \notin DOMAIN cache

(***************************************************************************)
(* Failures inside one invocation                                          *)
(***************************************************************************)
\* The matches of the running phase whose call of _store_match failed: they
\* were collected and the phase has no committed write for them.
FailedStores ==
    {m \in SeqSet(matches) :
        ~\E w \in trace.written :
            w.student_id = m.student_id /\ w.method = m.method_used}

\* C11: a failed call of _store_match leaves no row behind, does not end the
\* invocation with "error", keeps the candidate's match in the list of its
\* phase and in the returned list unless limit cuts it off, and the
\* candidates after it are still evaluated.
C11_StoreFailureSwallowed ==
    /\ \A m \in FailedStores :
          (~\E w \in trace.written : w.student_id = m.student_id)
          => RowsOf(store, m.student_id, m.job_id) = {}
    /\ (Done /\ result.method_used = "error")
       => (trace.load = "raised" \/ trace.rule = "raised")
    /\ (Done /\ result.method_used \in {"semantic", "rule_based"})
       => /\ \A m \in FailedStores :
                \/ m \in SeqSet(result.matches)
                \/ /\ Len(result.matches) = limit
                   /\ \A k \in 1..Len(result.matches) :
                         result.matches[k].score >= m.score
          /\ idx = Len(students) + 1
          /\ result.method_used = "rule_based"
             => StudentIdsOf(matches) = {u.id : u \in SeqSet(RuleQualifiers)}

\* C11 witness: the store call of the first of two rule-based candidates
\* failed; both are returned and only the second has a row.
C11_Witness ==
    /\ Done
    /\ result.method_used = "rule_based"
    /\ Len(matches) = 2
    /\ FailedStores = {matches[1]}
    /\ SeqSet(result.matches) = SeqSet(matches)
    /\ Len(store) = 1
    /\ store[1].student_id = matches[2].student_id

\* The candidates the semantic phase is due to collect: those whose text can
\* be built, whose embedding was obtained (it is in the cache, which was
\* empty when the invocation began) and whose combined score is >= min_score.
SemanticQualifiers ==
    SelectSeq(users, LAMBDA u :
        /\ IsCandidate(u)
        /\ u.profile_data.skills_valid
        /\ StudentKey(u.id) \in DOMAIN cache
        /\ FinalScore(CosineSimilarity(job_embedding,
                                       cache[StudentKey(u.id)].embedding),
                      CalculateRuleScore(u, Jobs[job_id])) >= min_score)

\* A candidate whose processing fails: scoring raises, or (semantic phase)
\* its embedding was not obtained.
FailsInRule(u) == IsCandidate(u) /\ ~u.profile_data.skills_valid

FailsInSemantic(u) ==
    IsCandidate(u)
    /\ (~u.profile_data.skills_valid \/ StudentKey(u.id) \notin DOMAIN cache)

\* C12: a phase that reached its loop collects exactly the candidates that
\* did not fail and qualify, whatever candidates failed before or after them,
\* returns them up to limit, and ends by returning: a failing candidate is
\* absent from the list and does not make the phase raise.
C12_CandidateFailureSkipsOne ==
    /\ (Done /\ result.method_used = "rule_based")
       => /\ [i \in 1..Len(matches) |-> matches[i].student_id]
               = [i \in 1..Len(RuleQualifiers) |-> RuleQualifiers[i].id]
          /\ \A u \in SeqSet(users) :
                FailsInRule(u) => u.id \notin StudentIdsOf(matches)
          /\ IsStableTop(result.matches, matches, limit)
    /\ (Done /\ result.method_used = "semantic")
       => /\ [i \in 1..Len(matches) |-> matches[i].student_id]
               = [i \in 1..Len(SemanticQualifiers) |-> SemanticQualifiers[i].id]
          /\ \A u \in SeqSet(users) :
                FailsInSemantic(u) => u.id \notin StudentIdsOf(matches)
          /\ IsStableTop(result.matches, matches, limit)
    /\ (pc = "semantic_loop" /\ idx > 1) => trace.semantic = "running"
    /\ (pc = "rule_loop" /\ idx > 1) => trace.rule = "running"
    /\ (Done /\ trace.rule = "running") => FALSE
    /\ (Done /\ trace.semantic = "running") => FALSE

\* C12 witness: in the semantic phase the first candidate of the pool failed
\* (its text could not be built or its embedding was not obtained) and the
\* last candidate is the one returned.
C12_Witness ==
    /\ Done
    /\ result.method_used = "semantic"
    /\ Len(students) >= 2
    /\ FailsInSemantic(students[1])
    /\ StudentIdsOf(result.matches) = {students[Len(students)].id}

(***************************************************************************)
(* Properties of the scoring functions                                     *)
(***************************************************************************)
IsZeroVector(v) == \A i \in 1..Len(v) : v[i] = 0

SameSkill(a, b) == Strip(Lower(a)) = Strip(Lower(b))

ScenarioSkills == << <<"p", "y", "t", "h", "o", "n">>, <<"J", "a", "v", "a">> >>

ScenarioRequirements == << <<"P", "y", "t", "h", "o", "n">>, <<"S", "Q", "L">> >>

\* C14: _extract_matched_skills returns skills of the candidate only, as the
\* candidate wrote them and in the order of the candidate's list, and every
\* skill equal to a requirement up to casing is among them; requirements
\* ["Python","SQL"] and skills ["python","Java"] give ["python"], and the
\* skill ratio of the boost score for that input is 0.5.
C14_MatchedSkillsOriginalCasing ==
    /\ call.fn = "extract"
       => /\ ~ret.raised
          /\ ret.value = SelectSeq(call.student_skills,
                                   LAMBDA s : s \in SetOf(ret.value))
          /\ \A i \in 1..Len(call.student_skills) :
                (\E j \in 1..Len(call.job_requirements) :
                    SameSkill(call.student_skills[i], call.job_requirements[j]))
                => call.student_skills[i] \in SetOf(ret.value)
          /\ (call.student_skills = ScenarioSkills
              /\ call.job_requirements = ScenarioRequirements)
             => ret.value = << <<"p", "y", "t", "h", "o", "n">> >>
    /\ SkillScore(MapLower(ScenarioSkills), MapLower(ScenarioRequirements))
         = Dec(5, 10)
    /\ RuleScoreRaw([profile_data |-> [skills |-> ScenarioSkills,
                                       education |-> <<>>, experience |-> <<>>]],
                    [requirements |-> ScenarioRequirements])
         = Dec(2, 10)

\* C14 witness: scenario A was called and gave ["python"].
C14_Witness ==
    /\ call.fn = "extract"
    /\ call.student_skills = ScenarioSkills
    /\ call.job_requirements = ScenarioRequirements
    /\ ret = Returned(<< <<"p", "y", "t", "h", "o", "n">> >>)

(***************************************************************************)
(* Order of the steps of one invocation                                    *)
(***************************************************************************)
\* C15: the invocation writes to the match store only the candidates of the
\* list it returns, so that a qualifying candidate cut off by limit has no
\* store write.
C15_WritesOnlyReturned ==
    (Done /\ result.method_used \in {"semantic", "rule_based"})
    => {w.student_id : w \in trace.written} \subseteq StudentIdsOf(result.matches)

\* The job's embedding was asked for and not obtained: the invocation is past
\* that step and the cache, empty when it began, has no entry for the job.
JobEmbeddingFailed ==
    /\ pc \notin {"idle", "load_job", "semantic_job"}
    /\ trace.load = "found"
    /\ JobKey(job_id) \notin DOMAIN cache

\* C16: when the job's embedding is not obtained the semantic phase is over
\* before its loop: the provider was called once (for the job), no candidate
\* has an embedding, no semantic match was collected or written, and the
\* invocation is in the rule-based phase or ended by it.
C16_NoJobEmbeddingEndsPhase ==
    JobEmbeddingFailed
    => /\ trace.provider_calls = 1
       /\ trace.provider_ok = 0
       /\ cache = <<>>
       /\ \A w \in trace.written : w.method # "semantic"
       /\ \A m \in SeqSet(matches) \cup SeqSet(result.matches) :
             m.method_used # "semantic"
       /\ trace.semantic = "returned"
       /\ trace.semantic_len = 0
       /\ pc \in {"rule_query", "rule_loop", "done"}
       /\ pc # "rule_query" => trace.rule # "not_run"
       /\ Done => result.method_used \in {"rule_based", "error"}
       /\ (Done /\ trace.rule = "returned") => result.method_used = "rule_based"

\* C16 witness: the job's embedding failed and the rule-based phase returned
\* a candidate.
C16_Witness ==
    /\ JobEmbeddingFailed
    /\ Done
    /\ result.method_used = "rule_based"
    /\ result.matches # <<>>
    /\ trace.provider_calls = 1

\* The entry of key k differs between two caches.
EntryDiffers(c1, c2, k) ==
    \/ (k \in DOMAIN c1) # (k \in DOMAIN c2)
    \/ (k \in DOMAIN c1 /\ k \in DOMAIN c2 /\ c1[k] # c2[k])

\* C17: every step that adds, changes or removes the cache entry of a key is
\* a call of _get_embedding for that key: a call for another key and the
\* passing of time leave the entry as it is, expired or not.
C17_LazyLocalEviction ==
    [][\A k \in CacheKeys :
          EntryDiffers(cache, cache', k)
          => (last'.key = k /\ last'.at = now /\ now' = now)]_vars

\* C17 witness: an entry that expired is still in the cache after a call for
\* another key made after its expiry.
C17_Witness ==
    \E k \in DOMAIN cache :
        /\ last.key # <<>>
        /\ last.key # k
        /\ last.at - cache[k].timestamp >= cache_ttl
        /\ now - cache[k].timestamp >= 2 * cache_ttl

\* C18: however two calls of _get_embedding interleave around the provider
\* call, every vector returned for a key was answered by the provider for
\* that key, and the cache entry of a key is the vector and time of the last
\* write for it; a key that was written has an entry unless a later lookup
\* found the entry expired and removed it.
C18_LastWriteWins ==
    /\ \A t \in Tasks :
          (tasks[t].pc = "returned" /\ tasks[t].ok)
          => <<tasks[t].key, tasks[t].embedding>> \in race.answers
    /\ \A t \in Tasks :
          (tasks[t].pc = "returned" /\ ~tasks[t].ok) => tasks[t].called
    /\ \A k \in DOMAIN cache :
          k \in DOMAIN race.last_write /\ cache[k] = race.last_write[k]
    /\ \A k \in DOMAIN race.last_write :
          k \notin DOMAIN cache => k \in race.evicted

\* C18 witness: two tasks looked the same uncached key up, both called the
\* provider and got different vectors; the cache holds the later write.
C18_Witness ==
    /\ race.lookups = 2
    /\ tasks[1].pc = "returned" /\ tasks[2].pc = "returned"
    /\ tasks[1].key = tasks[2].key
    /\ tasks[1].called /\ tasks[2].called
    /\ tasks[1].ok /\ tasks[2].ok
    /\ tasks[1].embedding # tasks[2].embedding
    /\ tasks[1].at < tasks[2].at
    /\ cache[tasks[1].key] = [embedding |-> tasks[2].embedding,
                              timestamp |-> tasks[2].at]

\* C19: _cosine_similarity called with vectors of different lengths ends with
\* an error and returns no similarity value.
C19_LengthMismatchRaises ==
    (call.fn = "cosine" /\ Len(call.vec1) # Len(call.vec2)) => ret.raised

\* Some education entry passes the test of the boost score against some
\* requirement of the job.
SomeEducationMatches(education, requirements) ==
    \E i \in 1..Len(education), j \in 1..Len(requirements) :
        LET field == Lower(education[i].field)
            degree == Lower(education[i].degree)
            req == Lower(requirements[j])
        IN  Contains(field, req) \/ Contains(req, field) \/ Contains(degree, req)

\* C20: the education part of the boost score is 0.3 when at least one
\* education entry matches a requirement and 0 otherwise, however many
\* entries match (seen on students with no skills and no experience, whose
\* boost score is the education part alone).
C20_EducationFlatOnce ==
    (/\ call.fn = "rule_score"
     /\ call.student.profile_data.skills = <<>>
     /\ call.student.profile_data.experience = <<>>)
    => ret.value = IF SomeEducationMatches(call.student.profile_data.education,
                                           call.job.requirements)
                   THEN Dec(3, 10) ELSE 0

\* The skills component of the detailed score of a call.
SkillsComponent ==
    DetailedSkills(ProfileOf(call.student), MapLowerStrip(call.job.requirements))

\* C21: in the detailed score the skills component (exact-match ratio * 0.4
\* plus partial-match ratio * 0.1) is at most 0.5, for every skill list and
\* every requirement list that is not empty.
C21_SkillsComponentAtMostHalf ==
    (call.fn = "detailed_score" /\ call.job.requirements # <<>>)
    => SkillsComponent <= Dec(5, 10)

\* Two lists of the same length whose entries differ at most in letter case
\* and in blanks around them.
SameSkillLists(a, b) ==
    Len(a) = Len(b) /\ \A i \in 1..Len(a) : SameSkill(a[i], b[i])

SkillVariants(list) == {v \in SkillLists : SameSkillLists(v, list)}

\* The score the scorer of the call gives to a student and a job.
ScoreOf(fn, student, job) ==
    IF fn = "rule_score" THEN CalculateRuleScore(student, job)
    ELSE CalculateDetailedRuleScore(student, job)

\* C22: changing the letter case of a candidate skill or of a requirement,
\* or adding blanks before or after it, changes neither the boost score nor
\* the detailed score.
C22_ScoresIgnoreCaseAndBlanks ==
    (/\ call.fn \in {"rule_score", "detailed_score"}
     /\ call.student \in SkilledStudents
     /\ call.job \in SkilledJobs)
    => \A s \in SkillVariants(call.student.profile_data.skills),
          r \in SkillVariants(call.job.requirements) :
           ScoreOf(call.fn,
                   [call.student EXCEPT !.profile_data.skills = s],
                   [call.job EXCEPT !.requirements = r]) = ret.value

\* The same for the detailed score alone, which trims.
DetailedIgnoresCaseAndBlanks ==
    call.fn = "detailed_score" => C22_ScoresIgnoreCaseAndBlanks

\* A pair matches when either string is contained in the other.
Bidirectional(a, b) == Contains(a, b) \/ Contains(b, a)

\* The duration part of the experience component, by the tiers of the
\* specification.
DurationTier(total_months) ==
    IF total_months >= 24 THEN Dec(15, 100)
    ELSE IF total_months >= 12 THEN Dec(10, 100)
    ELSE IF total_months >= 6 THEN Dec(5, 100)
    ELSE 0

\* The experience entries whose description matches a requirement in either
\* direction, and the education entries whose field or degree does.
RelevantEitherWay(experience, reqs) ==
    {i \in 1..Len(experience) :
        \E j \in 1..Len(reqs) : Bidirectional(reqs[j], Lower(experience[i].description))}

MatchingEitherWay(education, reqs) ==
    {i \in 1..Len(education) :
        \E j \in 1..Len(reqs) :
            \/ Bidirectional(Lower(education[i].field), reqs[j])
            \/ Bidirectional(Lower(education[i].degree), reqs[j])}

\* The detailed score gives the experience-relevance bonus to every entry
\* whose description contains a requirement or is contained in one.
ExperienceBonusEitherWay ==
    call.fn = "detailed_score"
    => LET experience == call.student.profile_data.experience
           reqs == MapLowerStrip(call.job.requirements)
       IN  DetailedExperience(ProfileOf(call.student), reqs)
             = Min(Dec(20, 100),
                   DurationTier(TotalMonths(experience))
                   + Cardinality(RelevantEitherWay(experience, reqs)) * Dec(5, 100))

\* The boost score counts an education entry when its field or its degree
\* contains a requirement or is contained in one (seen on students with no
\* skills and no experience, whose boost score is the education part alone).
EducationTestEitherWay ==
    (/\ call.fn = "rule_score"
     /\ call.student.profile_data.skills = <<>>
     /\ call.student.profile_data.experience = <<>>)
    => ret.value
         = Min(One, Cardinality(MatchingEitherWay(call.student.profile_data.education,
                                                  MapLower(call.job.requirements)))
                    * Dec(3, 10))

\* C23: every substring test of the two rule scorers is bidirectional: the
\* detailed score's experience bonus is given when a requirement contains the
\* description as well as when the description contains the requirement, and
\* the boost score's education test passes when a requirement is contained in
\* the degree as well as when the degree is contained in the requirement.
C23_SubstringTestsBidirectional ==
    ExperienceBonusEitherWay /\ EducationTestEitherWay

\* gpa values (in tenths) on both sides of the two thresholds.
Gpas == {20, 29, 30, 34, 35, 40}

\* The education component by the rules of the specification, for the first
\* entry alone; by_degree: a degree that matches a requirement earns the 0.15
\* as a field does.
EducationByRules(education, reqs, by_degree) ==
    IF education = <<>> THEN 0
    ELSE LET edu == education[1]
             field == Lower(edu.field)
             degree == Lower(edu.degree)
             relevant ==
                 \E j \in 1..Len(reqs) :
                     \/ field # <<>> /\ Bidirectional(field, reqs[j])
                     \/ by_degree /\ degree # <<>> /\ Bidirectional(degree, reqs[j])
         IN  (IF relevant THEN Dec(15, 100) ELSE 0)
             + (IF edu.gpa >= 35 THEN Dec(5, 100)
                ELSE IF edu.gpa >= 30 THEN Dec(3, 100) ELSE 0)
             + (IF Contains(Master, degree) \/ Contains(Phd, degree)
                THEN Dec(2, 100) ELSE 0)

\* The detailed score of a student who has education only is the education
\* component and 0.01 for the filled education list.
EducationAlone(by_degree) ==
    (/\ call.fn = "detailed_score"
     /\ call.student.profile_data.skills = <<>>
     /\ call.student.profile_data.experience = <<>>
     /\ call.student.profile_data.education # <<>>)
    => ret.value
         = Dec(1, 100)
           + EducationByRules(call.student.profile_data.education,
                              MapLowerStrip(call.job.requirements), by_degree)

\* Education lists that start with the same entry give the same score,
\* whatever follows it.
LaterEntriesIgnored ==
    (call.fn = "detailed_score" /\ call.student.profile_data.education # <<>>)
    => \A e \in EducationLists :
           (e # <<>> /\ e[1] = call.student.profile_data.education[1])
           => CalculateDetailedRuleScore(
                  [call.student EXCEPT !.profile_data.education = e], call.job)
                = ret.value

\* A higher gpa of the first entry gives a score that is not lower.
GpaMonotone ==
    (call.fn = "detailed_score" /\ call.student.profile_data.education # <<>>)
    => \A g \in Gpas :
           g >= call.student.profile_data.education[1].gpa
           => CalculateDetailedRuleScore(
                  [call.student EXCEPT !.profile_data.education[1].gpa = g], call.job)
                >= ret.value

\* C24 as stated: only the first education entry is scored; it earns 0.15
\* when its field or its degree substring-matches a requirement, 0.05 or 0.03
\* by its gpa and 0.02 for a master or phd degree; later entries do not
\* matter and a higher gpa never lowers the score.
C24_Original == EducationAlone(TRUE) /\ LaterEntriesIgnored /\ GpaMonotone

\* C24: the same, with the 0.15 earned only by the field of the first entry:
\* a field that is not empty and contains a requirement or is contained in
\* one. The degree is read for the 0.02 only.
C24_FirstEducationEntryOnly ==
    EducationAlone(FALSE) /\ LaterEntriesIgnored /\ GpaMonotone

\* A student with education only, whose first entry earns nothing and whose
\* second entry would earn the field's 0.15: the score is the 0.01 alone.
C24_Witness ==
    /\ call.fn = "detailed_score"
    /\ call.student.profile_data.skills = <<>>
    /\ call.student.profile_data.experience = <<>>
    /\ Len(call.student.profile_data.education) = 2
    /\ EducationByRules(Tail(call.student.profile_data.education),
                        MapLowerStrip(call.job.requirements), FALSE) >= Dec(15, 100)
    /\ ret.value = Dec(1, 100)

\* The experience entries whose description contains a requirement.
ContainsRequirement(experience, reqs) ==
    {i \in 1..Len(experience) :
        \E j \in 1..Len(reqs) : Contains(reqs[j], Lower(experience[i].description))}

\* The experience component by the rules of the specification.
ExperienceByRules(experience, reqs) ==
    Min(Dec(20, 100),
        DurationTier(TotalMonths(experience))
        + Cardinality(ContainsRequirement(experience, reqs)) * Dec(5, 100))

\* C25: in the detailed score the experience component is read from the
\* experience entries and the requirements alone: 0.15, 0.10, 0.05 or 0 by
\* the summed duration_months (from 24, 12, 6 months), 0.05 more for every
\* entry whose description contains a requirement, and never above 0.20. The
\* score of a call is the score of the same student without experience, plus
\* this component and the 0.01 for a filled experience list.
C25_ExperienceComponent ==
    call.fn = "detailed_score"
    => LET experience == call.student.profile_data.experience
           reqs == MapLowerStrip(call.job.requirements)
           component == ExperienceByRules(experience, reqs)
           without ==
               CalculateDetailedRuleScore(
                   [call.student EXCEPT !.profile_data.experience = <<>>], call.job)
       IN  /\ component <= Dec(20, 100)
           /\ DetailedExperience(ProfileOf(call.student), reqs) = component
           /\ ret.value
                = Min(One, without
                           + (IF experience = <<>> THEN 0 ELSE Dec(1, 100) + component))

\* A student whose only profile entry is 30 months of experience, for a job
\* with no requirement: the score is 0.15 and the 0.01 of the filled list.
C25_Witness ==
    /\ call.fn = "detailed_score"
    /\ call.student.profile_data.skills = <<>>
    /\ call.student.profile_data.education = <<>>
    /\ TotalMonths(call.student.profile_data.experience) = 30
    /\ call.job.requirements = <<>>
    /\ ret.value = Dec(16, 100)

\* C26: the list _extract_matched_skills returns holds no skill twice, also
\* when the candidate's list holds a skill more than once, written the same
\* way or differing in letter case or in blanks around it.
C26_MatchedSkillsDeduplicated ==
    call.fn = "extract"
    => \A i, j \in 1..Len(ret.value) :
           SameSkill(ret.value[i], ret.value[j]) => i = j

\* A skill overlaps a requirement list when its lower-cased, trimmed form
\* equals, contains or is contained in that of some requirement.
Overlaps(skill, job_requirements) ==
    \E j \in 1..Len(job_requirements) :
        Bidirectional(Strip(Lower(skill)), Strip(Lower(job_requirements[j])))

\* C27: _extract_matched_skills returns exactly the candidate's skills that
\* overlap some requirement (the test `job_req not in partial_matches` keeps
\* none of them out): nothing when no skill overlaps, the whole list when it
\* is the requirement list.
C27_MatchedIffOverlaps ==
    call.fn = "extract"
    => /\ ret.value
            = SelectSeq(call.student_skills,
                        LAMBDA skill : Overlaps(skill, call.job_requirements))
       /\ (\A i \in 1..Len(call.student_skills) :
               ~Overlaps(call.student_skills[i], call.job_requirements))
          => ret.value = <<>>
       /\ call.student_skills = call.job_requirements
          => ret.value = call.student_skills

\* Two skills are returned that are partial matches of one and the same
\* requirement, neither being equal to a requirement.
C27_Witness ==
    /\ call.fn = "extract"
    /\ Len(call.job_requirements) = 1
    /\ Len(ret.value) = 2
    /\ \A i \in 1..2 : ~SameSkill(ret.value[i], call.job_requirements[1])

\* C28: a cache hit is decided by the key and the age of the entry, not by
\* the text: a lookup of a key whose entry is younger than cache_ttl returns
\* the cached vector and calls no provider, with whatever text it is made, so
\* the vector returned may be that of an earlier, different text.
C28_HitIgnoresText ==
    (/\ last # NoCall
     /\ last.present
     /\ last.at - last.before.timestamp < cache_ttl)
    => /\ ~last.called
       /\ last.ok
       /\ last.embedding = last.before.embedding
       /\ \A text \in Texts :
              \A outcome \in ProviderAnswers(text) :
                  LET r == GetEmbedding(last.key :> last.before, last.at,
                                        last.key, outcome)
                  IN  ~r.called /\ r.ok /\ r.embedding = last.embedding

\* A lookup within the TTL that returned a vector which is not the
\* provider's vector of the text it was made with.
C28_Witness ==
    /\ last # NoCall
    /\ last.present
    /\ last.at - last.before.timestamp < cache_ttl
    /\ ~last.called
    /\ last.embedding # Embed(last.text)

\* The writes of the invocation that carry a score and an explanation of the
\* semantic phase.
SemanticWrites == {w \in trace.written : w.method = "semantic"}

\* C29: an invocation that returns method_used "rule_based" has written no
\* record with a score and an explanation of the semantic phase, for every
\* limit from 0 on; such writes are made only by invocations that return
\* "semantic".
C29_SemanticWritesOnlyWhenSemantic ==
    /\ (Done /\ result.method_used = "rule_based") => SemanticWrites = {}
    /\ (Done /\ SemanticWrites # {}) => result.method_used = "semantic"

\* The user a record was stored for is, now, an active student.
ActiveStudentNow(student_id) ==
    \E i \in DOMAIN users :
        /\ users[i].id = student_id
        /\ users[i].role = "student"
        /\ users[i].is_active

\* C30: no step of find_matches deletes a match record or lowers the number
\* of records, and a record changes only when it belongs to the job of the
\* running invocation and to an active student whose new score reaches
\* min_score: the records of other jobs, of students who are no longer
\* active and of students who no longer reach min_score stay as they were
\* stored.
C30_RecordsKept ==
    [][/\ Len(store') >= Len(store)
       /\ \A i \in DOMAIN store :
              /\ store'[i].student_id = store[i].student_id
              /\ store'[i].job_id = store[i].job_id
              /\ store'[i] # store[i]
                 => /\ store[i].job_id = job_id
                    /\ store'[i].match_score >= min_score
                    /\ ActiveStudentNow(store[i].student_id)]_vars

\* A later invocation has returned after writing a record, and the store
\* still holds, as it was before the invocation, a record of the same job
\* whose score is below this invocation's min_score or whose student is no
\* longer active.
C30_Witness ==
    /\ Done
    /\ invocations >= 1
    /\ trace.written # {}
    /\ \E i \in DOMAIN trace.store_at_start :
           /\ store[i] = trace.store_at_start[i]
           /\ store[i].job_id = job_id
           /\ \/ store[i].match_score < min_score
              \/ ~ActiveStudentNow(store[i].student_id)

=============================================================================
